---------------------------- MODULE Spec2Model ----------------------------
(***************************************************************************)
(* Model of velocidad.py: the calibration tab of PipeVelocityCalculator    *)
(* (add_calibration_point, update_calibration_table,                       *)
(* update_calibration_plot, clear_calibration, export_results), the        *)
(* calculator tab (calculate_velocity, clear_fields), the unit conversion  *)
(* (convert_flow_to_m3_per_s), the regime analysis (analyze_velocity) and  *)
(* CalibrationPlot (clear_plot, update_plot).                              *)
(*                                                                         *)
(* A Python float is modelled as the IEEE 754 double it is: sign, 53 bit   *)
(* mantissa and binary exponent, with gradual underflow, signed zeros,     *)
(* inf, -inf and nan.  Every arithmetic step of the source is taken in the *)
(* order the source takes it and rounded once to the nearest double, a tie *)
(* to the even mantissa; float(str), format(x, ".4f") and str(x) convert   *)
(* between decimal digits and the double as Python does.  The one step     *)
(* IEEE 754 does not fix is x ** 2, the C library's pow(x, 2.0): it gives  *)
(* one of the two doubles around the exact square, which one is up to the  *)
(* library, and the same one each time it is asked for the same x.         *)
(***************************************************************************)
EXTENDS Integers, Sequences, FiniteSets, TLC

(***************************************************************************)
(* Natural numbers of any size, for the 53 bit mantissa of a Python float  *)
(* and the exact result of an operation before it is rounded.  A number is *)
(* the sequence of its limbs of LimbBits bits, lowest first, the highest   *)
(* not 0; 0 is the empty sequence.                                         *)
(***************************************************************************)

\* bits of a limb: the product of two limbs stays below 2^31
LimbBits == 14

\* 2^LimbBits
Base == 16384

Abs(n) == IF n < 0 THEN -n ELSE n

Max(a, b) == IF a < b THEN b ELSE a

Min(a, b) == IF a < b THEN a ELSE b

\* limb i of a, 0 beyond its ends
Limb(a, i) == IF i >= 1 /\ i <= Len(a) THEN a[i] ELSE 0

\* a without its zero limbs at the high end
Trim(a) ==
    LET t == <<>> \o a
    IN  SubSeq(t, 1, CHOOSE n \in 0..Len(t) :
                         (n = 0 \/ t[n] # 0) /\ \A j \in (n + 1)..Len(t) : t[j] = 0)

\* the number of the integer 0 <= n < 2^31
BigOf(n) == Trim(<<n % Base, (n \div Base) % Base, n \div (Base * Base)>>)

\* a carry enters limb i of the sum of a and b
Carries(a, b, i) ==
    \E j \in 1..(i - 1) :
        /\ Limb(a, j) + Limb(b, j) >= Base
        /\ \A k \in (j + 1)..(i - 1) : Limb(a, k) + Limb(b, k) = Base - 1

\* a + b
BigAdd(a, b) ==
    Trim([i \in 1..(Max(Len(a), Len(b)) + 1) |->
            (Limb(a, i) + Limb(b, i) + (IF Carries(a, b, i) THEN 1 ELSE 0)) % Base])

\* limb i of a - b lends to the limbs below it
Borrows(a, b, i) ==
    \E j \in 1..(i - 1) :
        /\ a[j] < Limb(b, j)
        /\ \A k \in (j + 1)..(i - 1) : a[k] <= Limb(b, k)

\* a - b, b <= a
BigSub(a, b) ==
    Trim([i \in 1..Len(a) |->
            (a[i] - Limb(b, i) - (IF Borrows(a, b, i) THEN 1 ELSE 0)) % Base])

\* a * k, 0 <= k <= Base
BigScale(a, k) ==
    BigAdd(<<>> \o [i \in 1..Len(a) |-> (a[i] * k) % Base],
           <<0>> \o [i \in 1..Len(a) |-> (a[i] * k) \div Base])

RECURSIVE BigMul(_, _)
\* a * b, by the halves of a
BigMul(a, b) ==
    IF Len(a) = 0 THEN <<>>
    ELSE IF Len(a) = 1 THEN BigScale(b, a[1])
    ELSE LET lo == BigMul(SubSeq(a, 1, Len(a) \div 2), b)
             hi == BigMul(SubSeq(a, Len(a) \div 2 + 1, Len(a)), b)
         IN  IF hi = <<>> THEN lo
             ELSE BigAdd(lo, [i \in 1..(Len(a) \div 2) |-> 0] \o hi)

\* a < b
BigLess(a, b) ==
    \/ Len(a) < Len(b)
    \/ /\ Len(a) = Len(b)
       /\ \E i \in 1..Len(a) :
             a[i] < b[i] /\ \A j \in (i + 1)..Len(a) : a[j] = b[j]

RECURSIVE Bits(_)
\* the bits of the integer n >= 0: 0 for 0, k for 2^(k-1) <= n < 2^k
Bits(n) == IF n = 0 THEN 0 ELSE 1 + Bits(n \div 2)

\* the bits of a
BitLen(a) ==
    IF a = <<>> THEN 0 ELSE LimbBits * (Len(a) - 1) + Bits(a[Len(a)])

\* a * 2^k
ShiftLeft(a, k) ==
    Trim([i \in 1..(Len(a) + k \div LimbBits + 1) |->
            ((Limb(a, i - k \div LimbBits) * 2^(k % LimbBits)) % Base)
          + (Limb(a, i - k \div LimbBits - 1) \div 2^(LimbBits - (k % LimbBits)))])

\* a \div 2^k
ShiftRight(a, k) ==
    Trim([i \in 1..Max(0, Len(a) - k \div LimbBits) |->
            (Limb(a, i + k \div LimbBits) \div 2^(k % LimbBits))
          + (Limb(a, i + k \div LimbBits + 1) % 2^(k % LimbBits))
                * 2^(LimbBits - (k % LimbBits))])

\* bit k of a, bit 0 the lowest
BitAt(a, k) == (Limb(a, k \div LimbBits + 1) \div 2^(k % LimbBits)) % 2

\* some bit of a below bit k is 1
AnyBelow(a, k) ==
    \E i \in 1..Len(a) :
        \/ i <= k \div LimbBits /\ a[i] # 0
        \/ i = k \div LimbBits + 1 /\ (a[i] % 2^(k % LimbBits)) # 0

RECURSIVE LowZeros(_)
\* the zero bits at the low end of the integer n > 0
LowZeros(n) == IF (n % 2) = 1 THEN 0 ELSE 1 + LowZeros(n \div 2)

\* the zero bits at the low end of a # 0
TrailingZeros(a) ==
    LET i == CHOOSE i \in 1..Len(a) : a[i] # 0 /\ \A j \in 1..(i - 1) : a[j] = 0
    IN  LimbBits * (i - 1) + LowZeros(a[i])

RECURSIVE DivRem(_, _, _)
\* <<the Len(a) limbs of n \div d, n % d>> for the integers 0 <= r < d <= 2^17
\* and n = r * Base^Len(a) + a, the limbs of a and of the quotient listed
\* from the highest: the high half of a, then the low half
DivRem(a, d, r) ==
    IF Len(a) = 0 THEN <<<<>>, r>>
    ELSE IF Len(a) = 1
    THEN <<<<(r * Base + a[1]) \div d>>, (r * Base + a[1]) % d>>
    ELSE LET hi == DivRem(SubSeq(a, 1, Len(a) \div 2), d, r)
             lo == DivRem(SubSeq(a, Len(a) \div 2 + 1, Len(a)), d, hi[2])
         IN  <<hi[1] \o lo[1], lo[2]>>

\* <<n \div d, n % d>> for an integer 0 < d <= 2^17
DivSmall(n, d) ==
    LET Turned(h) == <<Trim([i \in 1..Len(n) |-> h[1][Len(n) + 1 - i]]), h[2]>>
    IN  Turned(DivRem(<<>> \o [i \in 1..Len(n) |-> n[Len(n) + 1 - i]], d, 0))

\* <<q, r - q * d>> for the limb q with q * d <= r < (q + 1) * d, given
\* r < d * Base and the highest limb of d at least Base / 2: q is at most 2
\* below the quotient of the two highest limbs of r by the highest of d
DivStep(r, d) ==
    LET Taken(q) == <<q, BigSub(r, BigScale(d, q))>>
        From(est) == Taken(IF ~BigLess(r, BigScale(d, est)) THEN est
                           ELSE IF ~BigLess(r, BigScale(d, est - 1)) THEN est - 1
                           ELSE est - 2)
    IN  From(Min(Base - 1, (Limb(r, Len(d) + 1) * Base + Limb(r, Len(d)))
                               \div d[Len(d)]))

RECURSIVE LongDiv(_, _, _, _)
\* <<the limbs of n \div d, n % d>> by long division, a limb of n at a time
\* from limb i down: qr is <<the limbs of the quotient, the remainder>> of
\* the limbs of n above limb i
LongDiv(qr, n, d, i) ==
    IF i = 0 THEN qr
    ELSE LET Below(h) == LongDiv(<<<<h[1]>> \o qr[1], h[2]>>, n, d, i - 1)
         IN  Below(DivStep(Trim(<<n[i]>> \o qr[2]), d))

\* <<n \div d, whether n % d # 0>>, d # 0; n and a d of several limbs are
\* scaled to bring the highest limb of d to Base / 2 at least
Quotient(n, d) ==
    LET Short(h) == <<h[1], h[2] # 0>>
        Long(h) == <<Trim(h[1]), h[2] # <<>>>>
        From(nn, dd, i) == LongDiv(<<<<>>, SubSeq(nn, i + 1, Len(nn))>>, nn, dd, i)
        Scaled(nn, dd) == Long(From(nn, dd, Max(0, Len(nn) - Len(dd) + 1)))
    IN  IF Len(d) = 1 THEN Short(DivSmall(n, d[1]))
        ELSE Scaled(ShiftLeft(n, LimbBits - Bits(d[Len(d)])),
                    ShiftLeft(d, LimbBits - Bits(d[Len(d)])))

RECURSIVE IntRoot(_, _)
\* the integer square root of the integer 0 < n from x at or above it
IntRoot(n, x) ==
    IF (x + n \div x) \div 2 < x THEN IntRoot(n, (x + n \div x) \div 2) ELSE x

RECURSIVE Newton(_, _)
\* the integer square root of n # 0 from x at or above it: Heron's steps
\* as long as they go down
Newton(n, x) ==
    LET Step(y) == IF BigLess(y, x) THEN Newton(n, y) ELSE x
    IN  Step(ShiftRight(BigAdd(x, Quotient(n, x)[1]), 1))

\* the integer square root of n # 0, started above it from the root of the
\* highest bits of n
BigRoot(n) ==
    LET Top(t) == BigOf(IntRoot(Limb(t, 1) + Limb(t, 2) * Base, Base) + 1)
        Above(k) == Newton(n, ShiftLeft(Top(ShiftRight(n, 2 * k)), k))
    IN  Above(Max(0, (BitLen(n) - 2 * LimbBits + 1) \div 2))

RECURSIVE Pow5(_)
\* 5^k, by squaring
Pow5(k) ==
    IF k <= 6 THEN <<5^k>>
    ELSE LET Odd(q) == IF (k % 2) = 0 THEN q ELSE BigScale(q, 5)
             Squared(h) == Odd(BigMul(h, h))
         IN  Squared(Pow5(k \div 2))

(***************************************************************************)
(* Python float: an IEEE 754 double.  A finite float is [k |-> "fin", s,   *)
(* m, e], the number s * m * 2^e with the sign s (1 or -1), an odd m of at *)
(* most 53 bits and -1074 <= e, below 2^1024; 0.0 and -0.0 have m = 0 and  *)
(* e = 0.  An operation takes the exact result of its operands and rounds  *)
(* it once to the nearest double, a tie to the even mantissa, to inf from  *)
(* 2^1024 - 2^970 on.                                                      *)
(***************************************************************************)

\* bits of the mantissa of a double
MantBits == 53

\* the binary exponent of the smallest double, 2^-1074
MinExp == -1074

\* the doubles lie below 2^MaxBits
MaxBits == 1024

NaN == [k |-> "nan", s |-> 1, m |-> <<>>, e |-> 0]

Inf(s) == [k |-> "inf", s |-> s, m |-> <<>>, e |-> 0]

Zero == [k |-> "fin", s |-> 1, m |-> <<>>, e |-> 0]

\* the double s * n * 2^e, n of at most MantBits bits and a multiple of
\* 2^(MinExp - e); inf from 2^MaxBits on
Exact(s, n, e) ==
    LET Odd(z) == [k |-> "fin", s |-> s, m |-> ShiftRight(n, z), e |-> e + z]
    IN  IF n = <<>> THEN [k |-> "fin", s |-> s, m |-> <<>>, e |-> 0]
        ELSE IF BitLen(n) + e > MaxBits THEN Inf(s)
        ELSE Odd(TrailingZeros(n))

\* n \div 2^cut (1 <= cut) rounded to nearest, a tie to even; sticky tells
\* that the exact magnitude lies above n, by less than 1
RoundedOff(n, cut, sticky) ==
    LET Up(q) == IF BitAt(n, cut - 1) = 1
                      /\ (sticky \/ AnyBelow(n, cut - 1) \/ BitAt(n, cut) = 1)
                 THEN BigAdd(q, <<1>>)
                 ELSE q
    IN  Up(ShiftRight(n, cut))

\* the double nearest to s * n * 2^e, cut by the bits of n * 2^e a double does
\* not hold; sticky tells that the exact magnitude lies above n * 2^e, by less
\* than 2^e, and then n has bits to cut
Nearest(s, n, e, sticky) ==
    LET Cut(cut) == Exact(s, IF cut = 0 THEN n ELSE RoundedOff(n, cut, sticky),
                          e + cut)
    IN  Cut(Max(0, Max(BitLen(n) - MantBits, MinExp - e)))

\* the double nearest to s * (n / d) * 2^e, n # 0 and d # 0: n / d carried on
\* by k bits for a quotient of more than MantBits + 2 bits
Ratio(s, n, d, e) ==
    LET Rounded(qr, k) == Nearest(s, qr[1], e - k, qr[2])
        Carried(k) == Rounded(Quotient(ShiftLeft(n, k), d), k)
    IN  Carried(Max(0, MantBits + 3 + BitLen(d) - BitLen(n)))

\* the double nearest to s * m * 10^e: float() of the numeral.  Beyond the
\* range the powers are not taken: 8^e <= 10^e
Decimal(s, m, e) ==
    LET By(p) == IF e >= 0 THEN Nearest(s, BigMul(m, p), e, FALSE)
                 ELSE Ratio(s, m, p, e)
    IN  IF m = <<>> \/ (e < 0 /\ BitLen(m) + 3 * e < MinExp - 1)
        THEN [k |-> "fin", s |-> s, m |-> <<>>, e |-> 0]
        ELSE IF e >= 0 /\ BitLen(m) + 3 * e > MaxBits THEN Inf(s)
        ELSE By(Pow5(Abs(e)))

\* the float of the decimal literal m * 10^e
Fin(m, e) == Decimal(IF m < 0 THEN -1 ELSE 1, BigOf(Abs(m)), e)

\* float(n) of an int
FromInt(n) == Exact(IF n < 0 THEN -1 ELSE 1, BigOf(Abs(n)), 0)

Neg(x) == IF x.k = "nan" THEN NaN ELSE [x EXCEPT !.s = -x.s]

IsZero(x) == x.k = "fin" /\ x.m = <<>>

\* the position above the highest bit of a finite nonzero x
Lead(x) == x.e + BitLen(x.m)

\* |x| < |y| on finite nonzero x, y
MagLess(x, y) ==
    IF Lead(x) # Lead(y) THEN Lead(x) < Lead(y)
    ELSE BigLess(ShiftLeft(x.m, x.e - Min(x.e, y.e)),
                 ShiftLeft(y.m, y.e - Min(x.e, y.e)))

\* x < y on finite x, y
FinLess(x, y) ==
    IF IsZero(x) THEN ~IsZero(y) /\ y.s > 0
    ELSE IF IsZero(y) THEN x.s < 0
    ELSE IF x.s # y.s THEN x.s < y.s
    ELSE MagLess(IF x.s > 0 THEN x ELSE y, IF x.s > 0 THEN y ELSE x)

\* x < y; a comparison with nan is False
Lt(x, y) ==
    IF x.k = "nan" \/ y.k = "nan" THEN FALSE
    ELSE IF x.k = "inf" THEN x.s < 0 /\ ~(y.k = "inf" /\ y.s < 0)
    ELSE IF y.k = "inf" THEN y.s > 0
    ELSE FinLess(x, y)

Le(x, y) == IF x.k = "nan" \/ y.k = "nan" THEN FALSE ELSE ~Lt(y, x)

Gt(x, y) == Lt(y, x)

Ge(x, y) == Le(y, x)

\* big + small before rounding, as <<sign, n, e, sticky>>: small of the
\* sign s and below the last of MantBits + 3 bits of big
AddFar(big, s) ==
    LET Wide(n, k) == <<big.s, IF s = big.s THEN n ELSE BigSub(n, <<1>>),
                        big.e - k, TRUE>>
        By(k) == Wide(ShiftLeft(big.m, k), k)
    IN  By(MantBits + 3 - BitLen(big.m))

\* the sum of finite nonzero x and y before rounding, as <<sign, n, e,
\* sticky>>: the exact sum of a = |x| / 2^e and b = |y| / 2^e, 0.0 when
\* they cancel
AddNear(x, y, a, b, e) ==
    IF x.s = y.s THEN <<x.s, BigAdd(a, b), e, FALSE>>
    ELSE IF a = b THEN <<1, <<>>, e, FALSE>>
    ELSE IF BigLess(a, b) THEN <<y.s, BigSub(b, a), e, FALSE>>
    ELSE <<x.s, BigSub(a, b), e, FALSE>>

\* the sum of finite nonzero x and y
FinAdd(x, y) ==
    LET Rounded(t) == Nearest(t[1], t[2], t[3], t[4])
        Far(big, small) == AddFar(big, small.s)
    IN  Rounded(IF Abs(Lead(x) - Lead(y)) > MantBits + 11
                THEN Far(IF Lead(x) > Lead(y) THEN x ELSE y,
                         IF Lead(x) > Lead(y) THEN y ELSE x)
                ELSE AddNear(x, y, ShiftLeft(x.m, x.e - Min(x.e, y.e)),
                             ShiftLeft(y.m, y.e - Min(x.e, y.e)), Min(x.e, y.e)))

\* x + y
Add(x, y) ==
    IF x.k = "nan" \/ y.k = "nan" THEN NaN
    ELSE IF x.k = "inf" THEN (IF y.k = "inf" /\ y.s # x.s THEN NaN ELSE x)
    ELSE IF y.k = "inf" THEN y
    ELSE IF IsZero(x) THEN (IF IsZero(y) /\ x.s # y.s THEN Zero ELSE y)
    ELSE IF IsZero(y) THEN x
    ELSE FinAdd(x, y)

\* x - y
Sub(x, y) == Add(x, Neg(y))

\* x * y
Mul(x, y) ==
    IF x.k = "nan" \/ y.k = "nan" THEN NaN
    ELSE IF x.k = "inf" \/ y.k = "inf"
         THEN (IF IsZero(x) \/ IsZero(y) THEN NaN ELSE Inf(x.s * y.s))
    ELSE Nearest(x.s * y.s, BigMul(x.m, y.m), x.e + y.e, FALSE)

\* the quotient x / y of finite x and finite nonzero y
FinDiv(x, y) ==
    IF IsZero(x) THEN [x EXCEPT !.s = x.s * y.s]
    ELSE Ratio(x.s * y.s, x.m, y.m, x.e - y.e)

\* x / y with a nonzero y (numpy's and Python's quotient agree there)
DivNZ(x, y) ==
    IF x.k = "nan" \/ y.k = "nan" THEN NaN
    ELSE IF x.k = "inf" THEN (IF y.k = "inf" THEN NaN ELSE Inf(x.s * y.s))
    ELSE IF y.k = "inf" THEN [Zero EXCEPT !.s = x.s * y.s]
    ELSE FinDiv(x, y)

\* numpy's x / y: division by zero gives nan or inf, with a RuntimeWarning
NpDiv(x, y) ==
    IF ~IsZero(y) THEN DivNZ(x, y)
    ELSE IF x.k = "nan" \/ IsZero(x) THEN NaN
    ELSE Inf(x.s * y.s)

\* the square root of m * 2^e, e even
RootOf(m, e) ==
    LET Rounded(r) == Nearest(1, r, e \div 2, BigMul(r, r) # m)
    IN  Rounded(BigRoot(m))

\* numpy.sqrt: the mantissa widened for a root of more than MantBits + 1 bits,
\* the exponent left even
Sqrt(x) ==
    IF x.k = "nan" THEN NaN
    ELSE IF x.k = "inf" THEN (IF x.s > 0 THEN x ELSE NaN)
    ELSE IF IsZero(x) THEN x
    ELSE IF x.s < 0 THEN NaN
    ELSE LET Wide(w) == RootOf(ShiftLeft(x.m, w + ((x.e - w) % 2)),
                               x.e - w - ((x.e - w) % 2))
         IN  Wide(Max(0, 2 * MantBits + 4 - BitLen(x.m)))

(***************************************************************************)
(* Text of a QLineEdit and Python's float(str), str.strip(), format() and   *)
(* str(float).  A text typed into a field is empty, blank (white space     *)
(* only), junk (no float literal), the literal inf/-inf or nan, or the     *)
(* decimal numeral "m e exp"; a text made from a float is its digits       *)
(* around the point, with an exponent in the scientific form.              *)
(***************************************************************************)

EmptyText == [t |-> "empty"]

BlankText == [t |-> "blank"]

JunkText == [t |-> "junk"]

NanText == [t |-> "nan"]

InfText(s) == [t |-> "inf", s |-> s]

Num(m, e) == [t |-> "num", m |-> m, e |-> e]

\* a numeral of up to eighteen digits: the digits of hi, then the nine digits
\* of lo, times 10^e
LongNum(hi, lo, e) == [t |-> "long", hi |-> hi, lo |-> lo, e |-> e]

\* str.strip(): white space only becomes the empty string
Strip(s) == IF s.t = "blank" THEN EmptyText ELSE s

\* bool(str): the empty string is falsy
Truthy(s) == s.t # "empty"

\* float(str) raises ValueError on these
RaisesValueError(s) == s.t \in {"empty", "blank", "junk"}

\* float(str) where it does not raise
Float(s) ==
    CASE s.t = "num" -> Fin(s.m, s.e)
      [] s.t = "long" -> Decimal(1, BigAdd(BigMul(BigOf(s.hi), BigOf(1000000000)),
                                          BigOf(s.lo)),
                                 s.e)
      [] s.t = "inf" -> Inf(s.s)
      [] OTHER       -> NaN

\* <<the integer part of 2 * m * 2^e * 10^k, whether a fraction was left>>
Doubled(m, e, k) ==
    LET Part(n) == IF e + k + 1 >= 0 THEN <<ShiftLeft(n, e + k + 1), FALSE>>
                   ELSE <<ShiftRight(n, -(e + k + 1)), AnyBelow(n, -(e + k + 1))>>
        By(p) == IF k >= 0 THEN Part(BigMul(m, p))
                 ELSE Quotient(ShiftLeft(m, Max(0, e + k + 1)),
                               ShiftLeft(p, Max(0, -(e + k + 1))))
    IN  By(Pow5(Abs(k)))

RECURSIVE Chunks(_)
\* a in base 10000, the highest chunk first (zero chunks may lead): four
\* chunks at a time from the low end
Chunks(a) ==
    LET Cut(h, low) == <<h[1], <<h[2]>> \o low>>
        Peel(p) == Cut(DivSmall(p[1], 10000), p[2])
        Above(p) == Chunks(p[1]) \o p[2]
    IN  IF a = <<>> THEN <<>>
        ELSE Above(Peel(Peel(Peel(Peel(<<a, <<>>>>)))))

\* the decimal digits of a, the highest first; none for 0
DecDigits(a) ==
    LET Led(d) == SubSeq(d, CHOOSE n \in 1..(Len(d) + 1) :
                                (n > Len(d) \/ d[n] # 0)
                                    /\ \A j \in 1..(n - 1) : d[j] = 0,
                         Len(d))
        Each(c) == <<>> \o [j \in 1..(4 * Len(c)) |->
                              (c[(j - 1) \div 4 + 1] \div 10^(3 - ((j - 1) % 4))) % 10]
    IN  Led(Each(Chunks(a)))

\* the text of sign, integer digits, point, fraction digits
FixedText(s, int, frac) == [t |-> "fixed", s |-> s, int |-> int, frac |-> frac]

\* the text of the digits of an integer with the point set `decimals` digits
\* from the right
Pointed(s, digits, decimals) ==
    LET Split(d) == FixedText(s, SubSeq(d, 1, Len(d) - decimals),
                              SubSeq(d, Len(d) - decimals + 1, Len(d)))
    IN  Split([i \in 1..Max(0, decimals + 1 - Len(digits)) |-> 0] \o digits)

\* f"{x:.<decimals>f}": the digits of the integer nearest to
\* |x| * 10^decimals, a tie to the even one
FmtFixed(x, decimals) ==
    IF x.k = "nan" THEN NanText
    ELSE IF x.k = "inf" THEN InfText(x.s)
    ELSE LET Halved(h) == Pointed(x.s, DecDigits(RoundedOff(h[1], 1, h[2])),
                                  decimals)
         IN  Halved(Doubled(x.m, x.e, decimals))

\* f"{x:,.2f}" from f"{x:.2f}" where grouped: the digits before the point in
\* groups of three from the right, a comma between two groups
Grouped(text, grouped) ==
    LET Split(d, n) ==
            [g \in 1..n |-> SubSeq(d, Max(1, Len(d) - 3 * (n - g) - 2),
                                   Len(d) - 3 * (n - g))]
    IN  IF ~grouped \/ text.t # "fixed" THEN text
        ELSE [t |-> "grouped", s |-> text.s,
              int |-> Split(text.int, (Len(text.int) + 2) \div 3),
              frac |-> text.frac]

\* f"{x:.4f}"
Fmt4(x) == FmtFixed(x, 4)

\* f"{x:.3f}"
Fmt3(x) == FmtFixed(x, 3)

\* str(int)
Str(n) == Num(n, 0)

RECURSIVE Sig(_, _, _)
\* <<c, o, u>>: the finite nonzero x to p significant digits, c * 10^u the
\* nearest with c of p digits, o * 10^u the neighbour on the other side of x;
\* E the decimal exponent of x, or one off
Sig(x, p, E) ==
    LET Sized(h, c, n) ==
            IF n > p THEN Sig(x, p, E + 1)
            ELSE IF n < p THEN Sig(x, p, E - 1)
            ELSE <<c, IF BigLess(h[1], BigScale(c, 2)) THEN BigSub(c, <<1>>)
                      ELSE BigAdd(c, <<1>>), E - p + 1>>
        Halved(h, c) == Sized(h, c, Len(DecDigits(c)))
        Twice(h) == Halved(h, RoundedOff(h[1], 1, h[2]))
    IN  Twice(Doubled(x.m, x.e, p - 1 - E))

RECURSIVE Shortest(_, _, _)
\* <<c, u>>: the decimal c * 10^u of the fewest digits, p at least, that
\* float() reads as x, the nearest to x of them: of the p digit decimals
\* the nearest (i = 1) is tried, then its neighbour (i = 2)
Shortest(x, p, i) ==
    LET Tried(g) == IF Decimal(x.s, g[i], g[3]) = x THEN <<g[i], g[3]>>
                    ELSE IF i = 1 THEN Shortest(x, p, 2)
                    ELSE Shortest(x, p + 1, 1)
    IN  Tried(Sig(x, p, ((Lead(x) - 1) * 30103) \div 100000))

\* the digits d without the zeros at their end
NoTrail(d) ==
    SubSeq(d, 1, CHOOSE n \in 0..Len(d) :
                     (n = 0 \/ d[n] # 0) /\ \A j \in (n + 1)..Len(d) : d[j] = 0)

\* repr of the float s * 0.d1 d2 ... * 10^point: with an exponent when the
\* point lies more than 16 digits right or 3 digits left of d1
ReprText(s, d, point) ==
    IF point > 16 \/ point <= -4
    THEN [t |-> "sci", s |-> s, int |-> SubSeq(<<>> \o d, 1, 1),
          frac |-> SubSeq(<<>> \o d, 2, Len(d)), exp |-> point - 1]
    ELSE IF point <= 0
    THEN FixedText(s, <<0>>, [i \in 1..(-point) |-> 0] \o d)
    ELSE FixedText(s, SubSeq(d \o [i \in 1..Max(0, point - Len(d)) |-> 0], 1, point),
                   IF Len(d) > point THEN SubSeq(d, point + 1, Len(d)) ELSE <<0>>)

\* str(float) inside an f-string
Repr(x) ==
    IF x.k = "nan" THEN NanText
    ELSE IF x.k = "inf" THEN InfText(x.s)
    ELSE IF IsZero(x) THEN FixedText(x.s, <<0>>, <<0>>)
    ELSE LET Placed(d, u) == ReprText(x.s, NoTrail(d), Len(d) + u)
             Written(g) == Placed(DecDigits(g[1]), g[2])
         IN  Written(Shortest(x, 1, 1))

(***************************************************************************)
(* Python and numpy helpers used by the handlers.                          *)
(***************************************************************************)

\* math.pi = 884279719003555 * 2^-48
Pi == [k |-> "fin", s |-> 1, m |-> <<1443, 10786, 1014, 201>>, e |-> -48]

\* x / y for Python floats: [exc, val]
PyDiv(x, y) ==
    IF IsZero(y) THEN [exc |-> "ZeroDivisionError", val |-> NaN]
    ELSE [exc |-> "none", val |-> DivNZ(x, y)]

\* the result v of x ** 2: OverflowError when a finite x gives inf
SquareResult(x, v) ==
    IF x.k = "fin" /\ v.k = "inf"
    THEN [exc |-> "OverflowError", val |-> NaN]
    ELSE [exc |-> "none", val |-> v]

\* one of the two doubles around s * n * 2^e, n # 0: the one toward zero, or
\* (away) the one on the other side; the number itself when it is a double
Neighbour(s, n, e, away) ==
    LET Cut(cut) ==
            Exact(s, IF away /\ cut > 0 /\ AnyBelow(n, cut)
                     THEN BigAdd(ShiftRight(n, cut), <<1>>)
                     ELSE ShiftRight(n, cut),
                  e + cut)
    IN  Cut(Max(0, Max(BitLen(n) - MantBits, MinExp - e)))

\* the C library's pow(x, 2.0): exact where the square is a double, else off
\* by less than one unit in the last place, toward zero or away from it
Pow2(x, away) ==
    IF x.k = "nan" THEN NaN
    ELSE IF x.k = "inf" THEN Inf(1)
    ELSE IF IsZero(x) THEN Zero
    ELSE Neighbour(1, BigMul(x.m, x.m), 2 * x.e, away)

\* x ** 2 for a Python float: [exc, val]
PySquare(x, away) == SquareResult(x, Pow2(x, away))

RECURSIVE SumFrom(_, _, _, _, _)
\* acc + xs[i] + xs[i + step] + ... up to xs[last], added in that order
SumFrom(xs, i, step, last, acc) ==
    IF i > last THEN acc ELSE SumFrom(xs, i + step, step, last, Add(acc, xs[i]))

\* lane j of numpy's unrolled sum: xs[j] + xs[j + 8] + ... over the blocks
\* of eight
Lane(xs, j) == SumFrom(xs, j + 8, 8, Len(xs) - (Len(xs) % 8), xs[j])

RECURSIVE Pairs(_)
\* the floats r, a power of two of them, added in pairs of neighbours, the
\* sums again in pairs, down to one
Pairs(r) ==
    IF Len(r) = 1 THEN r[1]
    ELSE Pairs([i \in 1..(Len(r) \div 2) |-> Add(r[2 * i - 1], r[2 * i])])

\* numpy.add.reduce of 1 to 128 floats (pairwise_sum): below eight items
\* one after the other from -0.0, else eight lanes added in pairs and the
\* items after the last block of eight one after the other
np_sum(xs) ==
    SumFrom(xs, IF Len(xs) < 8 THEN 1 ELSE Len(xs) - (Len(xs) % 8) + 1, 1, Len(xs),
            IF Len(xs) < 8 THEN Neg(Zero)
            ELSE Pairs(<<>> \o [j \in 1..8 |-> Lane(xs, j)]))

\* numpy.mean of a non-empty list
np_mean(xs) == NpDiv(np_sum(xs), FromInt(Len(xs)))

\* the squared deviations of xs from mu
SquaredDeviations(xs, mu) ==
    LET Squared(d) == Mul(d, d)
    IN  [i \in 1..Len(xs) |-> Squared(Sub(xs[i], mu))]

\* numpy.std(xs, ddof=1)
np_std_ddof1(xs) ==
    Sqrt(NpDiv(np_sum(SquaredDeviations(xs, np_mean(xs))),
               FromInt(Len(xs) - 1)))

RECURSIVE MaxFrom(_, _, _)
\* Python's max: keeps the current best unless an item is greater
MaxFrom(xs, i, best) ==
    IF i > Len(xs) THEN best
    ELSE MaxFrom(xs, i + 1, IF Gt(xs[i], best) THEN xs[i] ELSE best)

py_max(xs) == MaxFrom(xs, 2, xs[1])

RECURSIVE MinFrom(_, _, _)
\* Python's min: keeps the current best unless an item is smaller
MinFrom(xs, i, best) ==
    IF i > Len(xs) THEN best
    ELSE MinFrom(xs, i + 1, IF Lt(xs[i], best) THEN xs[i] ELSE best)

py_min(xs) == MinFrom(xs, 2, xs[1])

AllFinite(xs) == \A i \in 1..Len(xs) : xs[i].k = "fin"

\* numpy.polyfit(x, y, 1) solves by an SVD least squares (LAPACK gelsd), which
\* does not converge on nan or inf: the outcomes are the coefficients (FALSE)
\* or LinAlgError (TRUE), the latter only on non-finite data, where it
\* depends on the LAPACK build
np_polyfit_raises(xs, ys) ==
    IF AllFinite(xs) /\ AllFinite(ys) THEN {FALSE} ELSE {FALSE, TRUE}

\* the dialog text for a LinAlgError: the handler of line 520 takes it where
\* numpy derives LinAlgError from ValueError, the handler of line 522
\* elsewhere
LinAlgErrorTexts ==
    {"Valores numéricos inválidos.",
     "Error: SVD did not converge in Linear Least Squares"}

(***************************************************************************)
(* Pure functions of PipeVelocityCalculator.                               *)
(***************************************************************************)

\* convert_flow_to_m3_per_s: the dict of the seven conversions, .get(unit_index, 0)
convert_flow_to_m3_per_s(flow_value, unit_index) ==
    CASE unit_index = 0 -> DivNZ(flow_value, Fin(3600, 0))
      [] unit_index = 1 -> DivNZ(flow_value, Fin(3600000, 0))
      [] unit_index = 2 -> DivNZ(flow_value, Fin(60000, 0))
      [] unit_index = 3 -> DivNZ(flow_value, Fin(1000, 0))
      [] unit_index = 4 -> flow_value
      [] unit_index = 5 -> Mul(flow_value, Fin(6309, -8))
      [] unit_index = 6 -> Mul(flow_value, Fin(47194, -8))
      [] OTHER          -> Zero

\* mutant of analyze_velocity: the upper boundaries open
analyze_velocity_open(velocity) ==
    IF Lt(velocity, Fin(5, -1)) THEN "Velocidad BAJA - Posible sedimentación"
    ELSE IF Lt(velocity, Fin(15, -1)) THEN "Velocidad ÓPTIMA para tuberías de agua"
    ELSE IF Lt(velocity, Fin(3, 0)) THEN "Velocidad ACEPTABLE - Monitorear erosión"
    ELSE IF Lt(velocity, Fin(5, 0)) THEN "Velocidad ALTA - Posible erosión y ruido"
    ELSE "Velocidad MUY ALTA - REVISAR diseño"

\* analyze_velocity
analyze_velocity(velocity) ==
    IF Lt(velocity, Fin(5, -1)) THEN "Velocidad BAJA - Posible sedimentación"
    ELSE IF Le(velocity, Fin(15, -1)) THEN "Velocidad ÓPTIMA para tuberías de agua"
    ELSE IF Le(velocity, Fin(3, 0)) THEN "Velocidad ACEPTABLE - Monitorear erosión"
    ELSE IF Le(velocity, Fin(5, 0)) THEN "Velocidad ALTA - Posible erosión y ruido"
    ELSE "Velocidad MUY ALTA - REVISAR diseño"

\* if not all([diametro_str, espesor_str, caudal_str, velocidad_equipo_str])
FieldsMissing(diametro_str, espesor_str, caudal_str, velocidad_equipo_str) ==
    ~(Truthy(diametro_str) /\ Truthy(espesor_str) /\ Truthy(caudal_str)
        /\ Truthy(velocidad_equipo_str))

\* if diametro_exterior <= 0 or espesor < 0 or caudal <= 0
InvalidValues(diametro_exterior, espesor, caudal) ==
    Le(diametro_exterior, Zero) \/ Lt(espesor, Zero) \/ Le(caudal, Zero)

\* if espesor >= diametro_exterior / 2
WallTooThick(diametro_exterior, espesor) ==
    Ge(espesor, DivNZ(diametro_exterior, FromInt(2)))

\* diametro_interior_m = (diametro_exterior - 2 * espesor) / 1000
InnerDiameterM(diametro_exterior, espesor) ==
    DivNZ(Sub(diametro_exterior, Mul(FromInt(2), espesor)), FromInt(1000))

\* math.pi * sq, sq the result [exc, val] of the square
TimesPi(sq) ==
    IF sq.exc # "none" THEN sq ELSE [exc |-> "none", val |-> Mul(Pi, sq.val)]

\* diametro_interior_m / 2
HalfInnerDiameter(diametro_exterior, espesor) ==
    DivNZ(InnerDiameterM(diametro_exterior, espesor), FromInt(2))

\* area_m2 = math.pi * (diametro_interior_m / 2) ** 2 : [exc, val]
FlowArea(diametro_exterior, espesor, away) ==
    TimesPi(PySquare(HalfInnerDiameter(diametro_exterior, espesor), away))

\* caudal_m3_s / area_m2, area_m2 the result [exc, val] of the area
OverArea(caudal_m3_s, area_m2) ==
    IF area_m2.exc # "none" THEN area_m2 ELSE PyDiv(caudal_m3_s, area_m2.val)

\* velocidad_patron = caudal_m3_s / area_m2 : [exc, val]
ReferenceVelocity(diametro_exterior, espesor, caudal, unit_index, away) ==
    OverArea(convert_flow_to_m3_per_s(caudal, unit_index),
             FlowArea(diametro_exterior, espesor, away))

\* mutant of NextPunto: the index counted from zero
NextPuntoFromZero(data) == Len(data)

\* mutant of NextPunto: the index not advanced past the first point
NextPuntoStuck(data) == IF Len(data) = 0 THEN 1 ELSE Len(data)

\* punto = len(self.calibration_data) + 1
NextPunto(data) == Len(data) + 1

\* mutant of CalibrationPoint: the error taken as reference - instrument
CalibrationPointReversed(punto, velocidad_patron, velocidad_equipo) ==
    [punto            |-> punto,
     velocidad_patron |-> velocidad_patron,
     velocidad_equipo |-> velocidad_equipo,
     error            |-> Sub(velocidad_patron, velocidad_equipo)]

\* the dict appended to calibration_data
CalibrationPoint(punto, velocidad_patron, velocidad_equipo) ==
    [punto            |-> punto,
     velocidad_patron |-> velocidad_patron,
     velocidad_equipo |-> velocidad_equipo,
     error            |-> Sub(velocidad_equipo, velocidad_patron)]

\* if len(self.calibration_data) >= 10
AdvisoryDue(data) == Len(data) >= 10

\* update_calibration_table: one row of four cells per point
TableOf(data) ==
    [i \in 1..Len(data) |->
        <<Str(data[i].punto), Fmt4(data[i].velocidad_patron),
          Fmt4(data[i].velocidad_equipo), Fmt4(data[i].error)>>]

VelocityPatron(data) == [i \in 1..Len(data) |-> data[i].velocidad_patron]

Errors(data) == [i \in 1..Len(data) |-> data[i].error]

\* mutant of StdError: the sample deviation also of a single error
StdErrorUnguarded(errors) == np_std_ddof1(errors)

\* 'std_error': np.std(errors, ddof=1) if len(errors) > 1 else 0
StdError(errors) == IF Len(errors) > 1 THEN np_std_ddof1(errors) ELSE Zero

\* the statistics dict of update_calibration_plot
StatisticsOf(errors) ==
    [mean_error |-> np_mean(errors),
     std_error  |-> StdError(errors),
     max_error  |-> py_max(errors),
     min_error  |-> py_min(errors)]

Statistics(data) == StatisticsOf(Errors(data))

\* if len(velocity_patron) > 1: the trend line is fitted
TrendFitted(velocity_patron) == Len(velocity_patron) > 1

\* if statistics['std_error'] > 0: the +-2 sigma band is drawn
BandDrawn(statistics) == Gt(statistics.std_error, Zero)

\* CalibrationPlot.clear_plot: empty axes
ClearPlot == [kind |-> "clear"]

\* CalibrationPlot.update_plot run to its end: the scatter, the trend line
\* (when fitted), the band (when drawn) and the statistics box
UpdatedPlot(velocity_patron, errors, statistics) ==
    [kind       |-> "data",
     xs         |-> velocity_patron,
     ys         |-> errors,
     trend      |-> TrendFitted(velocity_patron),
     band       |-> BandDrawn(statistics),
     statistics |-> statistics]

\* CalibrationPlot.update_plot left by an exception of np.polyfit: the axes
\* were cleared and hold the scatter alone
InterruptedPlot(velocity_patron, errors) ==
    [kind |-> "scatter", xs |-> velocity_patron, ys |-> errors]

\* whether update_plot raises: only np.polyfit can, and only when it is called
PlotRaises(velocity_patron, errors) ==
    IF TrendFitted(velocity_patron)
    THEN np_polyfit_raises(velocity_patron, errors) ELSE {FALSE}

\* QTextEdit.clear(): no statistics shown
NoStats == [kind |-> "empty"]

\* the text update_calibration_plot puts into stats_text
StatsTextOf(n, statistics, velocity_patron) ==
    [kind  |-> "stats",
     n     |-> n,
     mean  |-> Fmt4(statistics.mean_error),
     std   |-> Fmt4(statistics.std_error),
     max   |-> Fmt4(statistics.max_error),
     min   |-> Fmt4(statistics.min_error),
     unc   |-> Fmt4(Mul(FromInt(2), statistics.std_error)),
     vmin  |-> Fmt3(py_min(velocity_patron)),
     vmax  |-> Fmt3(py_max(velocity_patron))]

StatsText(data) == StatsTextOf(Len(data), Statistics(data), VelocityPatron(data))

\* mutant of Filename: named after the last list position, not the count
FilenameByPosition(data) ==
    <<"calibracion_velocimetro_", Str(Len(data) - 1), "_puntos.txt">>

\* f"calibracion_velocimetro_{len(self.calibration_data)}_puntos.txt"
Filename(data) == <<"calibracion_velocimetro_", Str(Len(data)), "_puntos.txt">>

\* the report export_results writes (both pipe fields parse): the pipe
\* configuration, the rows, the statistics
ReportOf(diametro, espesor, rows, errors, std_error) ==
    [kind     |-> "report",
     diametro |-> diametro,
     espesor  |-> espesor,
     interior |-> Repr(Sub(Float(diametro), Mul(FromInt(2), Float(espesor)))),
     rows     |-> rows,
     mean     |-> Fmt4(np_mean(errors)),
     std      |-> Fmt4(std_error),
     max      |-> Fmt4(py_max(errors)),
     min      |-> Fmt4(py_min(errors)),
     unc      |-> Fmt4(Mul(FromInt(2), std_error))]

\* the file open(filename, 'w') leaves when the write after it fails
TruncatedFile == [kind |-> "truncated"]

Report(diametro, espesor, data) ==
    ReportOf(diametro, espesor, TableOf(data), Errors(data), StdError(Errors(data)))

\* QMessageBox.warning / critical / information / question, or none shown
MsgBox(icon, text) == [icon |-> icon, text |-> text]

NoMsg == MsgBox("none", "")

(***************************************************************************)
(* State of the window.                                                    *)
(***************************************************************************)

VARIABLES
    calibration_data,        \* self.calibration_data: list of point dicts
    calib_diametro,          \* text of the QLineEdit
    calib_espesor,           \* text of the QLineEdit
    calib_caudal,            \* text of the QLineEdit
    calib_caudal_units,      \* currentIndex() of the QComboBox
    calib_velocidad_equipo,  \* text of the QLineEdit
    calib_table,             \* rows of the QTableWidget
    stats_text,              \* content of the statistics QTextEdit
    plot,                    \* content of the axes of plot_widget
    files,                   \* the reports on disk, by file name
    msgbox,                  \* the dialog the last handler showed
    caudal_input,            \* text of the QLineEdit of the calculator tab
    diametro_input,          \* text of the QLineEdit of the calculator tab
    espesor_input,           \* text of the QLineEdit of the calculator tab
    caudal_units,            \* currentIndex() of the QComboBox of the calculator tab
    results_text,            \* content of the results QTextEdit
    velocity,                \* history: the velocidad of the last results
    analysis,                \* history: what analyze_velocity returned for it
    last_op,                 \* history: the handler that ran last
    before,                  \* history: calibration_data when it started
    clears_in_row,           \* history: confirmed clears just run in a row (0..2)
    ever_issued,             \* history: largest punto ever given to a point
    reissued,                \* history: "never", "after_clear" or "live"
    pipe_of,                 \* history: the pipe fields each point was computed from
    libm_pow                 \* the C library: [x, away] for each x whose square
                             \* it has rounded so far

widgets == <<calib_diametro, calib_espesor, calib_caudal, calib_caudal_units,
             calib_velocidad_equipo>>

views == <<calib_table, stats_text, plot>>

calculator == <<caudal_input, diametro_input, espesor_input, caudal_units,
                results_text, velocity, analysis>>

indices == <<ever_issued, reissued>>

vars == <<calibration_data, widgets, views, files, msgbox, calculator, last_op,
          before, clears_in_row, indices, pipe_of, libm_pow>>

\* __init__ and init_ui: no points, empty fields, first units selected, empty
\* table, empty statistics and results, clear_plot() run by
\* CalibrationPlot.__init__
Init ==
    /\ calibration_data = <<>>
    /\ calib_diametro = EmptyText
    /\ calib_espesor = EmptyText
    /\ calib_caudal = EmptyText
    /\ calib_caudal_units = 0
    /\ calib_velocidad_equipo = EmptyText
    /\ calib_table = <<>>
    /\ stats_text = NoStats
    /\ plot = ClearPlot
    /\ files = <<>>
    /\ msgbox = NoMsg
    /\ caudal_input = EmptyText
    /\ diametro_input = EmptyText
    /\ espesor_input = EmptyText
    /\ caudal_units = 0
    /\ results_text = EmptyText
    /\ velocity = Zero
    /\ analysis = ""
    /\ last_op = "none"
    /\ before = <<>>
    /\ clears_in_row = 0
    /\ ever_issued = 0
    /\ reissued = "never"
    /\ pipe_of = <<>>
    /\ libm_pow = {}

(***************************************************************************)
(* The user fills the calibration form: four line edits and the unit box.  *)
(***************************************************************************)

Form(d, e, c, u, v) ==
    [diametro |-> d, espesor |-> e, caudal |-> c, unidad |-> u,
     velocidad_equipo |-> v]

FillForm(f) ==
    /\ calib_diametro' = f.diametro
    /\ calib_espesor' = f.espesor
    /\ calib_caudal' = f.caudal
    /\ calib_caudal_units' = f.unidad
    /\ calib_velocidad_equipo' = f.velocidad_equipo
    /\ msgbox' = NoMsg
    /\ last_op' = "fill"
    /\ before' = calibration_data
    /\ clears_in_row' = 0
    /\ UNCHANGED <<calibration_data, views, files, calculator, indices, pipe_of,
                   libm_pow>>

(***************************************************************************)
(* add_calibration_point                                                   *)
(***************************************************************************)

\* the handler returns after a dialog, nothing else changed
Rejected(icon, text) ==
    /\ msgbox' = MsgBox(icon, text)
    /\ UNCHANGED <<calibration_data, widgets, views, indices, pipe_of>>

\* history of the indices: the punto given by this call
IssuedPunto(punto) ==
    /\ ever_issued' = IF punto > ever_issued THEN punto ELSE ever_issued
    /\ reissued' =
         IF reissued = "live"
              \/ \E i \in 1..Len(calibration_data) : calibration_data[i].punto = punto
         THEN "live"
         ELSE IF punto <= ever_issued THEN "after_clear" ELSE reissued

\* lines 497-518: append, update the table, update the plot and the statistics,
\* clear the two inputs, advise at ten points; an exception of update_plot
\* leaves the handler at line 520 or 522 with the point appended and the
\* table updated, the statistics text and the inputs as they were
ShowPoints(data, velocity_patron, errors) ==
    /\ calibration_data' = data
    /\ calib_table' = TableOf(data)
    /\ \E raises \in PlotRaises(velocity_patron, errors) :
         IF raises
         THEN /\ plot' = InterruptedPlot(velocity_patron, errors)
              /\ \E text \in LinAlgErrorTexts : msgbox' = MsgBox("critical", text)
              /\ UNCHANGED <<stats_text, widgets>>
         ELSE /\ plot' = UpdatedPlot(velocity_patron, errors, StatisticsOf(errors))
              /\ stats_text' = StatsText(data)
              /\ calib_caudal' = EmptyText
              /\ calib_velocidad_equipo' = EmptyText
              /\ UNCHANGED <<calib_diametro, calib_espesor, calib_caudal_units>>
              /\ msgbox' = IF AdvisoryDue(data)
                           THEN MsgBox("information",
                                 "Se han ingresado 10 puntos. Calibración completa.")
                           ELSE NoMsg

AppendedAs(punto, data) ==
    /\ IssuedPunto(punto)
    /\ pipe_of' = Append(pipe_of, [diametro |-> Strip(calib_diametro),
                                   espesor  |-> Strip(calib_espesor)])
    /\ ShowPoints(data, VelocityPatron(data), Errors(data))

\* mutant of AppendAs: insert(0, ...) instead of append(...)
AppendAsFirst(punto, velocidad_patron, velocidad_equipo) ==
    AppendedAs(punto,
               <<CalibrationPoint(punto, velocidad_patron, velocidad_equipo)>>
                   \o calibration_data)

AppendAs(punto, velocidad_patron, velocidad_equipo) ==
    AppendedAs(punto,
               Append(calibration_data,
                      CalibrationPoint(punto, velocidad_patron, velocidad_equipo)))

\* lines 486-518, velocidad_patron the result [exc, val] of lines 486-492:
\* its exception is caught at line 522
AddComputed(velocidad_patron, velocidad_equipo) ==
    IF velocidad_patron.exc = "ZeroDivisionError"
    THEN Rejected("critical", "Error: float division by zero")
    ELSE IF velocidad_patron.exc = "OverflowError"
    THEN Rejected("critical", "Error: (34, 'Numerical result out of range')")
    ELSE AppendAs(NextPunto(calibration_data), velocidad_patron.val,
                  velocidad_equipo)

\* the ways the C library may round pow(x, 2.0): the way it did before for
\* this x, else either way where the square is no double
PowRoundings(x) ==
    IF \E r \in libm_pow : r.x = x THEN {r.away : r \in {q \in libm_pow : q.x = x}}
    ELSE IF Pow2(x, TRUE) = Pow2(x, FALSE) THEN {FALSE}
    ELSE BOOLEAN

\* what is known of the C library once it has rounded the square of x: where
\* the square is a double it had no choice
Learned(x, away) ==
    IF Pow2(x, ~away) = Pow2(x, away) THEN libm_pow
    ELSE libm_pow \cup {[x |-> x, away |-> away]}

\* lines 486-518 with the square of x rounded toward zero or away from it
AddSquared(diametro_exterior, espesor, caudal, velocidad_equipo, x, away) ==
    /\ libm_pow' = Learned(x, away)
    /\ AddComputed(ReferenceVelocity(diametro_exterior, espesor, caudal,
                                     calib_caudal_units, away),
                   velocidad_equipo)

\* lines 477-518 on the four converted values
AddValues(diametro_exterior, espesor, caudal, velocidad_equipo) ==
    IF InvalidValues(diametro_exterior, espesor, caudal)
    THEN Rejected("warning", "Valores inválidos.") /\ UNCHANGED libm_pow
    ELSE IF WallTooThick(diametro_exterior, espesor)
    THEN Rejected("warning", "Espesor demasiado grande.") /\ UNCHANGED libm_pow
    ELSE \E away \in PowRoundings(HalfInnerDiameter(diametro_exterior, espesor)) :
            AddSquared(diametro_exterior, espesor, caudal, velocidad_equipo,
                       HalfInnerDiameter(diametro_exterior, espesor), away)

\* lines 467-518 on the four stripped texts; a ValueError of float() is
\* caught at line 520
AddTexts(diametro_str, espesor_str, caudal_str, velocidad_equipo_str) ==
    IF FieldsMissing(diametro_str, espesor_str, caudal_str, velocidad_equipo_str)
    THEN Rejected("warning", "Complete todos los campos.") /\ UNCHANGED libm_pow
    ELSE IF \/ RaisesValueError(diametro_str)
            \/ RaisesValueError(espesor_str)
            \/ RaisesValueError(caudal_str)
            \/ RaisesValueError(velocidad_equipo_str)
    THEN Rejected("critical", "Valores numéricos inválidos.")
             /\ UNCHANGED libm_pow
    ELSE AddValues(Float(diametro_str), Float(espesor_str), Float(caudal_str),
                   Float(velocidad_equipo_str))

add_calibration_point ==
    /\ last_op' = "add"
    /\ before' = calibration_data
    /\ clears_in_row' = 0
    /\ UNCHANGED <<files, calculator>>
    /\ AddTexts(Strip(calib_diametro), Strip(calib_espesor), Strip(calib_caudal),
                Strip(calib_velocidad_equipo))

(***************************************************************************)
(* clear_calibration: reply is the button of the confirmation dialog       *)
(***************************************************************************)

\* mutant of ClearedData: pop() instead of clear()
ClearedDataPop(data) ==
    IF Len(data) = 0 THEN <<>> ELSE SubSeq(data, 1, Len(data) - 1)

\* self.calibration_data.clear()
ClearedData(data) == <<>>

clear_calibration(reply) ==
    /\ msgbox' = MsgBox("question",
                   "¿Está seguro de limpiar todos los datos de calibración?")
    /\ last_op' = IF reply = "Yes" THEN "clear" ELSE "clear_declined"
    /\ before' = calibration_data
    /\ clears_in_row' = IF reply # "Yes" THEN 0
                        ELSE IF clears_in_row < 2 THEN clears_in_row + 1 ELSE 2
    /\ IF reply = "Yes"
       THEN /\ calibration_data' = ClearedData(calibration_data)
            /\ calib_table' = <<>>
            /\ plot' = ClearPlot
            /\ stats_text' = NoStats
            /\ pipe_of' = <<>>
       ELSE UNCHANGED <<calibration_data, views, pipe_of>>
    /\ UNCHANGED <<widgets, files, calculator, indices, libm_pow>>

(***************************************************************************)
(* export_results: outcome is what the file system does at                 *)
(* open(filename, 'w') and f.write(report)                                 *)
(***************************************************************************)

\* if not self.calibration_data
NothingToExport(data) == data = <<>>

export_results(outcome) ==
    /\ last_op' = "export"
    /\ before' = calibration_data
    /\ clears_in_row' = 0
    /\ UNCHANGED <<calibration_data, widgets, views, calculator, indices, pipe_of,
                   libm_pow>>
    /\ IF NothingToExport(calibration_data)
       THEN /\ msgbox' = MsgBox("warning",
                                "No hay datos de calibración para exportar.")
            /\ UNCHANGED files
       ELSE IF RaisesValueError(calib_diametro) \/ RaisesValueError(calib_espesor)
       THEN /\ msgbox' = MsgBox("critical", "Error al exportar: ValueError")
            /\ UNCHANGED files
       ELSE IF outcome = "open_fails"
       THEN /\ msgbox' = MsgBox("critical", "Error al exportar: OSError")
            /\ UNCHANGED files
       ELSE /\ files' =
                 [n \in DOMAIN files \cup {Filename(calibration_data)} |->
                     IF n # Filename(calibration_data) THEN files[n]
                     ELSE IF outcome = "write_fails" THEN TruncatedFile
                     ELSE Report(calib_diametro, calib_espesor, calibration_data)]
            /\ msgbox' = IF outcome = "write_fails"
                          THEN MsgBox("critical", "Error al exportar: OSError")
                          ELSE MsgBox("information",
                                      "Resultados exportados a: filename")

(***************************************************************************)
(* Spec: the calibration session.  The user fills the form, adds points    *)
(* and clears them, in any order.                                          *)
(***************************************************************************)

\* most points a session of Spec holds
MaxPoints == 4

\* pipe of 100 mm with a 5 mm wall, 36 m3/h, reading 1.3 m/s
FormA == Form(Num(100, 0), Num(5, 0), Num(36, 0), 0, Num(13, -1))

\* FormA and another pipe, of 50 mm with a 4 mm wall, 200 L/min, reading
\* 2.5 m/s
SessionForms == {FormA, Form(Num(50, 0), Num(4, 0), Num(200, 0), 2, Num(25, -1))}

Replies == {"Yes", "No"}

Next ==
    \/ \E f \in SessionForms : FillForm(f)
    \/ (Len(calibration_data) < MaxPoints /\ add_calibration_point)
    \/ \E reply \in Replies : clear_calibration(reply)

Spec == Init /\ [][Next]_vars

(***************************************************************************)
(* SpecExport: the session with its export button.  The user adds points   *)
(* of one pipe, may retype the pipe fields afterwards, clears and exports. *)
(***************************************************************************)

\* most points a session of SpecExport holds
MaxExportPoints == 3

\* FormA, and the pipe fields typed over after a point was added, flow and
\* reading left as add_calibration_point cleared them
ExportForms == {FormA, Form(Num(50, 0), Num(4, 0), EmptyText, 0, EmptyText)}

\* what open(filename, 'w') and f.write(report) can do
WriteOutcomes == {"written", "open_fails", "write_fails"}

\* most report files a session of SpecExport leaves on disk
MaxReports == 2

\* the export writes no further file
NoNewReport ==
    \/ NothingToExport(calibration_data)
    \/ Filename(calibration_data) \in DOMAIN files

NextExport ==
    \/ \E f \in ExportForms : FillForm(f)
    \/ (Len(calibration_data) < MaxExportPoints /\ add_calibration_point)
    \/ \E reply \in Replies : clear_calibration(reply)
    \/ ((NoNewReport \/ Cardinality(DOMAIN files) < MaxReports)
           /\ \E outcome \in WriteOutcomes : export_results(outcome))

SpecExport == Init /\ [][NextExport]_vars

(***************************************************************************)
(* SpecFaults: the session fed with texts that are missing, no number, or  *)
(* not finite, and with a wall too thick.                                  *)
(***************************************************************************)

\* most points a session of SpecFaults holds
MaxFaultPoints == 3

\* FormA; its pipe with 72 m3/h and a reading of 3 m/s; a flow of "nan", which
\* float() parses and no validation rejects; a reading of "inf"; the reading
\* left blank; a flow that is no number; a wall of half the diameter
FaultForms ==
    {FormA,
     Form(Num(100, 0), Num(5, 0), Num(72, 0), 0, Num(3, 0)),
     Form(Num(100, 0), Num(5, 0), NanText, 0, Num(1, 0)),
     Form(Num(100, 0), Num(5, 0), Num(36, 0), 0, InfText(1)),
     Form(Num(100, 0), Num(5, 0), Num(36, 0), 0, BlankText),
     Form(Num(100, 0), Num(5, 0), JunkText, 0, Num(1, 0)),
     Form(Num(100, 0), Num(50, 0), Num(36, 0), 0, Num(1, 0))}

NextFaults ==
    \/ \E f \in FaultForms : FillForm(f)
    \/ (Len(calibration_data) < MaxFaultPoints /\ add_calibration_point)
    \/ \E reply \in Replies : clear_calibration(reply)

SpecFaults == Init /\ [][NextFaults]_vars

(***************************************************************************)
(* SpecValidation: one click of "Agregar Punto" on every combination of    *)
(* diameters, walls and flows, the extremes of a float among them.         *)
(***************************************************************************)

\* most points a session of SpecValidation holds
MaxValidationPoints == 1

Diameters ==
    {Num(-1, 0), Num(0, 0), Num(1, -160), Num(10, 0), Num(100, 0),
     Num(100001, -3), Num(1, 200), InfText(1), NanText}

Walls == {Num(-1, 0), Num(0, 0), Num(5, 0), Num(50, 0), NanText}

Flows == {Num(-1, 0), Num(0, 0), Num(36, 0), InfText(1), NanText}

ValidationForms ==
    {Form(d, e, c, 0, Num(1, 0)) : d \in Diameters, e \in Walls, c \in Flows}

NextValidation ==
    \/ \E f \in ValidationForms : FillForm(f)
    \/ (Len(calibration_data) < MaxValidationPoints /\ add_calibration_point)

SpecValidation == Init /\ [][NextValidation]_vars

(***************************************************************************)
(* SpecAdvisory: a long session of one valid form, past the ten points of  *)
(* the advisory.                                                           *)
(***************************************************************************)

\* most points a session of SpecAdvisory holds
MaxAdvisoryPoints == 11

NextAdvisory ==
    \/ FillForm(FormA)
    \/ (Len(calibration_data) < MaxAdvisoryPoints /\ add_calibration_point)
    \/ \E reply \in Replies : clear_calibration(reply)

SpecAdvisory == Init /\ [][NextAdvisory]_vars

(***************************************************************************)
(* The calculator tab: the user fills three line edits and the unit box,   *)
(* "Calcular Velocidad" runs calculate_velocity, "Limpiar" clear_fields.   *)
(***************************************************************************)

FillCalculator(caudal, diametro, espesor, unidad) ==
    /\ caudal_input' = caudal
    /\ diametro_input' = diametro
    /\ espesor_input' = espesor
    /\ caudal_units' = unidad
    /\ msgbox' = NoMsg
    /\ last_op' = "fill"
    /\ before' = calibration_data
    /\ clears_in_row' = 0
    /\ UNCHANGED <<calibration_data, widgets, views, files, results_text,
                   velocity, analysis, indices, pipe_of, libm_pow>>

\* self.caudal_units.currentText().split('(')[1].split(')')[0]
unit_text(unit_index) ==
    <<"metros cúbicos por hora", "litros por hora", "litros por minuto",
      "litros por segundo", "metros cúbicos por segundo", "galones por minuto",
      "pies cúbicos por minuto">>[unit_index + 1]

\* the f-string of lines 419-436: the eight numbers as formatted there, the
\* first four with thousands separators, the unit and the analysis
Results(caudal, diametro_exterior, espesor, caudal_m3_s, area_m2, velocidad) ==
    LET Places == <<2, 2, 2, 2, 4, 6, 6, 3>>
        Values == <<caudal, diametro_exterior, espesor,
                    Sub(diametro_exterior, Mul(FromInt(2), espesor)),
                    InnerDiameterM(diametro_exterior, espesor),
                    area_m2, caudal_m3_s, velocidad>>
        Lines(text) ==
            [t |-> "results",
             caudal |-> text[1],
             unit_text |-> unit_text(caudal_units),
             diametro_exterior |-> text[2],
             espesor |-> text[3],
             diametro_interior_mm |-> text[4],
             diametro_interior_m |-> text[5],
             area_m2 |-> text[6],
             caudal_m3_s |-> text[7],
             velocidad |-> text[8],
             analysis |-> analyze_velocity(velocidad)]
    IN  Lines([i \in 1..8 |-> Grouped(FmtFixed(Values[i], Places[i]), i <= 4)])

\* the handler returns after a dialog, the results as they were
Refused(icon, text) ==
    /\ msgbox' = MsgBox(icon, text)
    /\ UNCHANGED <<results_text, velocity, analysis>>

\* lines 410-439 with the square of x rounded toward zero or away from it;
\* an exception of lines 415-416 is caught at line 442
CalculateSquared(caudal, diametro_exterior, espesor, x, away) ==
    LET Shown(caudal_m3_s, area_m2, velocidad) ==
            IF velocidad.exc = "ZeroDivisionError"
            THEN Refused("critical", "Error: float division by zero")
            ELSE IF velocidad.exc = "OverflowError"
            THEN Refused("critical",
                         "Error: (34, 'Numerical result out of range')")
            ELSE /\ msgbox' = NoMsg
                 /\ results_text' = Results(caudal, diametro_exterior, espesor,
                                            caudal_m3_s, area_m2.val,
                                            velocidad.val)
                 /\ velocity' = velocidad.val
                 /\ analysis' = results_text'.analysis
        Divided(caudal_m3_s, area_m2) ==
            Shown(caudal_m3_s, area_m2, OverArea(caudal_m3_s, area_m2))
    IN  /\ libm_pow' = Learned(x, away)
        /\ Divided(convert_flow_to_m3_per_s(caudal, caudal_units),
                   FlowArea(diametro_exterior, espesor, away))

\* lines 402-439 on the three converted values
CalculateValues(caudal, diametro_exterior, espesor) ==
    IF InvalidValues(diametro_exterior, espesor, caudal)
    THEN Refused("warning", "Valores inválidos.") /\ UNCHANGED libm_pow
    ELSE IF WallTooThick(diametro_exterior, espesor)
    THEN Refused("warning", "El espesor es demasiado grande.")
             /\ UNCHANGED libm_pow
    ELSE \E away \in PowRoundings(HalfInnerDiameter(diametro_exterior, espesor)) :
            CalculateSquared(caudal, diametro_exterior, espesor,
                             HalfInnerDiameter(diametro_exterior, espesor), away)

\* a ValueError of float() is caught at line 440
calculate_velocity ==
    LET Texts(caudal_str, diametro_str, espesor_str) ==
            IF ~Truthy(caudal_str) \/ ~Truthy(diametro_str) \/ ~Truthy(espesor_str)
            THEN Refused("warning", "Por favor, complete todos los campos.")
                     /\ UNCHANGED libm_pow
            ELSE IF \/ RaisesValueError(caudal_str)
                    \/ RaisesValueError(diametro_str)
                    \/ RaisesValueError(espesor_str)
            THEN Refused("critical", "Valores numéricos inválidos.")
                     /\ UNCHANGED libm_pow
            ELSE CalculateValues(Float(caudal_str), Float(diametro_str),
                                 Float(espesor_str))
    IN  /\ last_op' = "calculate"
        /\ before' = calibration_data
        /\ clears_in_row' = 0
        /\ UNCHANGED <<calibration_data, widgets, views, files, caudal_input,
                       diametro_input, espesor_input, caudal_units, indices,
                       pipe_of>>
        /\ Texts(Strip(caudal_input), Strip(diametro_input), Strip(espesor_input))

clear_fields ==
    /\ caudal_input' = EmptyText
    /\ diametro_input' = EmptyText
    /\ espesor_input' = EmptyText
    /\ results_text' = EmptyText
    /\ caudal_units' = 0
    /\ msgbox' = NoMsg
    /\ last_op' = "clear_fields"
    /\ before' = calibration_data
    /\ clears_in_row' = 0
    /\ UNCHANGED <<calibration_data, widgets, views, files, velocity, analysis,
                   indices, pipe_of, libm_pow>>

(***************************************************************************)
(* SpecRegime: the calculator tab.  The user types a flow, a pipe and a    *)
(* unit, calculates and clears, in any order.  On a pipe of 1000 mm with   *)
(* no wall, whose area is pi / 4 m2, the flows typed give the velocities   *)
(* 0.5, 1.5, 3.0 and 5.0 m/s and the float next to each on either side;    *)
(* on a pipe of 100 mm with a 5 mm wall one flow in each unit gives a      *)
(* velocity of each regime; the other forms are the ones the handler       *)
(* refuses and the ones whose velocity is not finite.                      *)
(***************************************************************************)

\* flows in m3/s on the pipe of 1000 mm: three around each boundary
BoundaryFlows ==
    {LongNum(3926990, 816987241, -16),      \* 0.3926990816987241
     LongNum(39269908, 169872414, -17),     \* 0.39269908169872414 : 0.5 m/s
     LongNum(3926990, 816987242, -16),      \* 0.3926990816987242
     LongNum(11780972, 450961722, -16),     \* 1.1780972450961722
     LongNum(11780972, 450961724, -16),     \* 1.1780972450961724 : 1.5 m/s
     LongNum(11780972, 450961726, -16),     \* 1.1780972450961726
     LongNum(23561944, 901923444, -16),     \* 2.3561944901923444
     LongNum(2356194, 490192345, -15),      \* 2.356194490192345 : 3.0 m/s
     LongNum(23561944, 901923453, -16),     \* 2.3561944901923453
     LongNum(39269908, 169872405, -16),     \* 3.9269908169872405
     LongNum(39269908, 169872414, -16),     \* 3.9269908169872414 : 5.0 m/s
     LongNum(3926990, 816987242, -15)}      \* 3.926990816987242

\* <<caudal, diametro, espesor, unit>> typed into the calculator: the flows
\* around the boundaries, a flow in each other unit on the same pipe, the
\* pipe of 100 mm with a 5 mm wall, and the texts that are missing, no
\* number, out of range or not finite
CalculatorForms ==
    {<<c, Num(1000, 0), Num(0, 0), 4>> : c \in BoundaryFlows}
        \cup {<<Num(360, 0), Num(1000, 0), Num(0, 0), 0>>,         \* 0.13 m/s
              <<Num(3600000, 0), Num(1000, 0), Num(0, 0), 1>>,     \* 1.27 m/s
              <<Num(120000, 0), Num(1000, 0), Num(0, 0), 2>>,      \* 2.55 m/s
              <<Num(3500, 0), Num(1000, 0), Num(0, 0), 3>>,        \* 4.46 m/s
              <<Num(100000, 0), Num(1000, 0), Num(0, 0), 5>>,      \* 8.03 m/s
              <<Num(1234567, -3), Num(1000, 0), Num(0, 0), 6>>,    \* 0.74 m/s
              <<Num(36, 0), Num(100, 0), Num(5, 0), 0>>,           \* 1.57 m/s
              <<EmptyText, Num(100, 0), Num(5, 0), 0>>,
              <<Num(36, 0), Num(100, 0), BlankText, 0>>,
              <<JunkText, Num(100, 0), Num(5, 0), 0>>,
              <<Num(-1, 0), Num(100, 0), Num(5, 0), 0>>,
              <<Num(36, 0), Num(100, 0), Num(50, 0), 0>>,
              <<Num(36, 0), Num(1, 200), Num(5, 0), 0>>,
              <<Num(36, 0), Num(1, -160), Num(0, 0), 0>>,
              <<NanText, Num(1000, 0), Num(0, 0), 4>>,
              <<Num(36, 0), InfText(1), Num(5, 0), 0>>}

NextRegime ==
    \/ \E f \in CalculatorForms : FillCalculator(f[1], f[2], f[3], f[4])
    \/ calculate_velocity
    \/ clear_fields

SpecRegime == Init /\ [][NextRegime]_vars

(***************************************************************************)
(* Properties.                                                             *)
(***************************************************************************)

\* C1: in every reachable state the points carry the indices 1, 2, ..., n in
\* insertion order, and a call of add_calibration_point that appended a point
\* gave it the index (number of points before the call) + 1.
C1_IndicesInOrder ==
    /\ \A i \in 1..Len(calibration_data) : calibration_data[i].punto = i
    /\ (last_op = "add" /\ calibration_data # before) =>
          /\ Len(calibration_data) = Len(before) + 1
          /\ calibration_data[Len(calibration_data)].punto = Len(before) + 1

\* C1 witness: a session that was exported and cleared and then filled again,
\* its third point just added
C1_Witness ==
    /\ last_op = "add"
    /\ Len(before) = 2
    /\ Len(calibration_data) = 3
    /\ reissued = "after_clear"
    /\ files # <<>>

\* C2 as stated: no index is ever given to two points, also across a clear.
C2_NeverReused == reissued = "never"

\* C2 amended: an index is never given to a new point while a point with that
\* index is in the session, that is, never twice without a confirmed clear
\* between the two calls; after a confirmed clear the numbering restarts at 1.
C2_NoReuseWithoutClear ==
    /\ reissued # "live"
    /\ (last_op = "add" /\ calibration_data # before /\ before = <<>>) =>
          calibration_data[1].punto = 1

\* C2 witness: after a confirmed clear a new point got an index used before
C2_Witness ==
    /\ reissued = "after_clear"
    /\ last_op = "add"
    /\ calibration_data # before

\* C3 as stated: when the four fields parse, add_calibration_point rejects
\* the call (a dialog, no point) if outer <= 0 or wall < 0 or
\* wall >= outer / 2 or flow <= 0, and appends a point for every input with
\* outer > 0, 0 <= wall < outer / 2 and flow > 0.
C3_Validation ==
    [][(/\ last_op' = "add"
        /\ ~FieldsMissing(Strip(calib_diametro), Strip(calib_espesor),
                          Strip(calib_caudal), Strip(calib_velocidad_equipo))
        /\ ~RaisesValueError(Strip(calib_diametro))
        /\ ~RaisesValueError(Strip(calib_espesor))
        /\ ~RaisesValueError(Strip(calib_caudal))
        /\ ~RaisesValueError(Strip(calib_velocidad_equipo)))
       =>
       /\ (\/ Le(Float(Strip(calib_diametro)), Zero)
           \/ Lt(Float(Strip(calib_espesor)), Zero)
           \/ Ge(Mul(FromInt(2), Float(Strip(calib_espesor))),
                 Float(Strip(calib_diametro)))
           \/ Le(Float(Strip(calib_caudal)), Zero))
          => /\ calibration_data' = calibration_data
             /\ msgbox'.icon \in {"warning", "critical"}
       /\ (/\ Gt(Float(Strip(calib_diametro)), Zero)
           /\ Ge(Float(Strip(calib_espesor)), Zero)
           /\ Lt(Mul(FromInt(2), Float(Strip(calib_espesor))),
                 Float(Strip(calib_diametro)))
           /\ Gt(Float(Strip(calib_caudal)), Zero))
          => /\ Len(calibration_data') = Len(calibration_data) + 1
             /\ msgbox'.icon \notin {"warning", "critical"}]_vars

\* C4 as stated: whenever add_calibration_point reports an error (a warning
\* or critical dialog), the points are those of before the call and the table
\* and the statistics text describe them.
C4_NoPartialResults ==
    (last_op = "add" /\ msgbox.icon \in {"warning", "critical"}) =>
        /\ calibration_data = before
        /\ calib_table = TableOf(before)
        /\ stats_text = IF before = <<>> THEN NoStats ELSE StatsText(before)

\* C5: after a confirmed clear the session is empty (no points, no rows, no
\* statistics, cleared plot), whether it held points or none before, so also
\* after the second of two clears in a row.
C5_ClearEmpties ==
    last_op = "clear" =>
        /\ calibration_data = <<>>
        /\ calib_table = <<>>
        /\ stats_text = NoStats
        /\ plot = ClearPlot

\* C5 witness: the second of two confirmed clears in a row has run, on a
\* session that had held points
C5_Witness ==
    /\ last_op = "clear"
    /\ clears_in_row = 2
    /\ before = <<>>
    /\ ever_issued > 0
    /\ calibration_data = <<>>

\* C6 as stated: a call of add_calibration_point that appended a point shows
\* the "calibration complete" advisory if and only if the count after the
\* append is 10.
C6_AdvisoryExactlyAtTen ==
    (last_op = "add" /\ calibration_data # before) =>
        (msgbox.icon = "information" <=> Len(calibration_data) = 10)

\* C7 as stated: after every completed add_calibration_point or confirmed
\* clear the statistics shown are those of the current points (their count is
\* the number of points) and the plot got the current points; they are the
\* empty ones exactly when there are no points.
C7_StatisticsCurrent ==
    last_op \in {"add", "clear"} =>
        IF calibration_data = <<>>
        THEN stats_text = NoStats /\ plot = ClearPlot
        ELSE /\ stats_text.kind = "stats"
             /\ stats_text.n = Len(calibration_data)
             /\ stats_text = StatsText(calibration_data)
             /\ plot.kind = "data"
             /\ plot.xs = VelocityPatron(calibration_data)
             /\ plot.ys = Errors(calibration_data)

\* C8: with no points the statistics text and the plot are empty (no record
\* of zeros); statistics of exactly one point have std_error 0 and an
\* expanded uncertainty 2 * std_error of 0, in the plot and in the text; a
\* trend line is fitted only to two or more points.
C8_SmallSamples ==
    /\ calibration_data = <<>> => (stats_text = NoStats /\ plot = ClearPlot)
    /\ (plot.kind = "data" /\ Len(plot.xs) = 1) =>
          /\ plot.statistics.std_error = Zero
          /\ Mul(FromInt(2), plot.statistics.std_error) = Zero
          /\ ~plot.band
    /\ (stats_text.kind = "stats" /\ stats_text.n = 1) =>
          /\ stats_text.std = FixedText(1, <<0>>, <<0, 0, 0, 0>>)
          /\ stats_text.unc = FixedText(1, <<0>>, <<0, 0, 0, 0>>)
    /\ (plot.kind = "data" /\ plot.trend) => Len(plot.xs) >= 2

\* C8 witness: the statistics of a session of exactly one point are shown
C8_Witness ==
    /\ Len(calibration_data) = 1
    /\ plot.kind = "data"
    /\ Len(plot.xs) = 1
    /\ stats_text.kind = "stats"
    /\ stats_text.n = 1

\* C9: export_results never changes the points; with no points it writes no
\* file and shows a warning; the only file it ever touches is the one named
\* after the current point count, and a completed export has written it.
C9_Export ==
    [][last_op' = "export" =>
         /\ calibration_data' = calibration_data
         /\ calibration_data = <<>> =>
               (files' = files /\ msgbox'.icon = "warning")
         /\ files' # files =>
               /\ calibration_data # <<>>
               /\ DOMAIN files' = DOMAIN files \cup
                     {<<"calibracion_velocimetro_", Str(Len(calibration_data)),
                        "_puntos.txt">>}
               /\ \A n \in DOMAIN files :
                     n # <<"calibracion_velocimetro_",
                           Str(Len(calibration_data)), "_puntos.txt">>
                        => files'[n] = files[n]
         /\ msgbox'.icon = "information" =>
               /\ <<"calibracion_velocimetro_", Str(Len(calibration_data)),
                    "_puntos.txt">> \in DOMAIN files'
               /\ files'[<<"calibracion_velocimetro_",
                           Str(Len(calibration_data)), "_puntos.txt">>].kind
                     = "report"]_vars

\* C9 witness: an export has written the report of a session of two points
C9_Witness ==
    /\ last_op = "export"
    /\ msgbox.icon = "information"
    /\ Len(calibration_data) = 2
    /\ <<"calibracion_velocimetro_", Str(2), "_puntos.txt">> \in DOMAIN files
    /\ <<"calibracion_velocimetro_", Str(1), "_puntos.txt">> \in DOMAIN files


\* C10: analyze_velocity returns exactly one of the five regimes for every
\* velocity: below 0.5 the low one, from 0.5 to 1.5 the optimal one, above
\* 1.5 to 3.0 the acceptable one, above 3.0 to 5.0 the high one, above 5.0
\* the very high one; 0.5, 1.5, 3.0 and 5.0 themselves give optimal, optimal,
\* acceptable and high.
C10_Regimes ==
    analysis # "" =>
        /\ analysis \in {"Velocidad BAJA - Posible sedimentación",
                         "Velocidad ÓPTIMA para tuberías de agua",
                         "Velocidad ACEPTABLE - Monitorear erosión",
                         "Velocidad ALTA - Posible erosión y ruido",
                         "Velocidad MUY ALTA - REVISAR diseño"}
        /\ Lt(velocity, Fin(5, -1)) =>
              analysis = "Velocidad BAJA - Posible sedimentación"
        /\ (Ge(velocity, Fin(5, -1)) /\ Le(velocity, Fin(15, -1))) =>
              analysis = "Velocidad ÓPTIMA para tuberías de agua"
        /\ (Gt(velocity, Fin(15, -1)) /\ Le(velocity, Fin(3, 0))) =>
              analysis = "Velocidad ACEPTABLE - Monitorear erosión"
        /\ (Gt(velocity, Fin(3, 0)) /\ Le(velocity, Fin(5, 0))) =>
              analysis = "Velocidad ALTA - Posible erosión y ruido"
        /\ Gt(velocity, Fin(5, 0)) =>
              analysis = "Velocidad MUY ALTA - REVISAR diseño"
        /\ velocity = Fin(5, -1) =>
              analysis = "Velocidad ÓPTIMA para tuberías de agua"
        /\ velocity = Fin(15, -1) =>
              analysis = "Velocidad ÓPTIMA para tuberías de agua"
        /\ velocity = Fin(3, 0) =>
              analysis = "Velocidad ACEPTABLE - Monitorear erosión"
        /\ velocity = Fin(5, 0) =>
              analysis = "Velocidad ALTA - Posible erosión y ruido"

\* C10 witness: "Calcular Velocidad" has computed the velocity 1.5 m/s, a
\* boundary, and shown the optimal regime for it
C10_Witness ==
    /\ last_op = "calculate"
    /\ msgbox = NoMsg
    /\ velocity = Fin(15, -1)
    /\ analysis = "Velocidad ÓPTIMA para tuberías de agua"
    /\ results_text # EmptyText
    /\ results_text.analysis = analysis

\* C12: after every step each point of the session has error = instrument
\* velocity - reference velocity (the float that subtraction yields), and the
\* point add_calibration_point appends has as instrument velocity the reading
\* typed for this call and as reference velocity the flow typed for this
\* call, converted from the unit selected, divided by the flow area
\* pi * (d / 2)^2 of the pipe typed for this call, d = (outer - 2 * wall) /
\* 1000.  The reference velocity is compared with the exact quotient of the
\* typed values, not computed again: for values whose floats lie between
\* 2^-200 and 2^200 and a unit of the box it is finite, positive and within
\* 2^-45 of it, relatively, the eight roundings of the computation being
\* below 2^-49 together.  With v the reference velocity, x the float of the
\* outer diameter less twice that of the wall, f the float of the flow and
\* n / d the factor of the unit: |v * pi * x^2 * d - f * n * 4000000| * 2^45
\* <= f * n * 4000000.
C12_ErrorIsDifference ==
  [][
    LET Gap(a, b) == IF BigLess(a, b) THEN BigSub(b, a) ELSE BigSub(a, b)
        Close(a, b) == ~BigLess(b, ShiftLeft(Gap(a, b), 45))
        Aligned(a, ea, b, eb) ==
            Close(ShiftLeft(a, ea - Min(ea, eb)), ShiftLeft(b, eb - Min(ea, eb)))
        Squared(x) == BigMul(x, x)
        Inner(do, es) ==
            BigSub(ShiftLeft(do.m, do.e - Min(do.e, es.e + 1)),
                   ShiftLeft(es.m, es.e + 1 - Min(do.e, es.e + 1)))
        UnitFactor(u) ==
            CASE u = 0 -> <<1, 3600>>
              [] u = 1 -> <<1, 3600000>>
              [] u = 2 -> <<1, 60000>>
              [] u = 3 -> <<1, 1000>>
              [] u = 4 -> <<1, 1>>
              [] u = 5 -> <<6309, 100000000>>
              [] u = 6 -> <<47194, 100000000>>
        Ordinary(x) == x.k = "fin" /\ x.m # <<>> /\ Lead(x) \in -200..200
        IsQuotient(v, do, es, f, u) ==
            /\ v.k = "fin"
            /\ v.s = 1
            /\ v.m # <<>>
            /\ Aligned(BigMul(BigMul(v.m, Pi.m),
                              BigMul(Squared(Inner(do, es)), BigOf(UnitFactor(u)[2]))),
                       v.e + Pi.e + 2 * Min(do.e, es.e + 1),
                       BigMul(f.m, BigMul(BigOf(UnitFactor(u)[1]), BigOf(4000000))),
                       f.e)
    IN     /\ \A i \in 1..Len(calibration_data') :
                 calibration_data'[i].error =
                     Sub(calibration_data'[i].velocidad_equipo,
                         calibration_data'[i].velocidad_patron)
           /\ (last_op' = "add" /\ calibration_data' # calibration_data) =>
                 /\ calibration_data'[Len(calibration_data')].velocidad_equipo =
                        Float(Strip(calib_velocidad_equipo))
                 /\ (/\ Ordinary(Float(Strip(calib_diametro)))
                     /\ Ordinary(Sub(Float(Strip(calib_diametro)),
                                     Mul(FromInt(2), Float(Strip(calib_espesor)))))
                     /\ Ordinary(Float(Strip(calib_caudal)))
                     /\ calib_caudal_units \in 0..6)
                    => IsQuotient(calibration_data'[Len(calibration_data')]
                                     .velocidad_patron,
                                 Float(Strip(calib_diametro)),
                                 Float(Strip(calib_espesor)),
                                 Float(Strip(calib_caudal)),
                                 calib_caudal_units)
  ]_vars

\* C12 witness: a session holds two points computed from two different pipes,
\* the second with a non-zero error and a square the C library rounded away
\* from zero
C12_Witness ==
    /\ last_op = "add"
    /\ Len(calibration_data) = 2
    /\ pipe_of[1] # pipe_of[2]
    /\ ~IsZero(calibration_data[2].error)
    /\ \E r \in libm_pow : r.away

\* C13: a call of add_calibration_point that ends without an error dialog
\* grows the list by exactly one point; whenever the call changes the list,
\* the new list is the old one, every point and the order as they were, with
\* one point after it; filling the form, exporting and a declined clear leave
\* the list as it was, and the only other change is a confirmed clear, which
\* empties it.
C13_AppendOnly ==
    [][/\ (last_op' = "add" /\ msgbox'.icon \notin {"warning", "critical"}) =>
             Len(calibration_data') = Len(calibration_data) + 1
       /\ (last_op' = "add" /\ calibration_data' # calibration_data) =>
             /\ Len(calibration_data') = Len(calibration_data) + 1
             /\ SubSeq(calibration_data', 1, Len(calibration_data)) =
                    calibration_data
       /\ calibration_data' # calibration_data =>
             \/ last_op' = "add"
             \/ last_op' = "clear" /\ calibration_data' = <<>>
       /\ last_op' \in {"fill", "export", "clear_declined"} =>
             calibration_data' = calibration_data]_vars

\* C13 witness: a third point was appended after the two the session held,
\* which are still its first two
C13_Witness ==
    /\ last_op = "add"
    /\ Len(before) = 2
    /\ Len(calibration_data) = 3
    /\ SubSeq(calibration_data, 1, 2) = before
    /\ calibration_data[3].punto = 3

\* C14 as stated: the pipe written in a report export_results completes
\* (outer diameter, wall thickness) is the pipe every point listed in the
\* report was computed from.
C14_ReportPipeIsPointsPipe ==
    [][(last_op' = "export" /\ msgbox'.icon = "information") =>
         /\ files'[<<"calibracion_velocimetro_", Str(Len(calibration_data)),
                     "_puntos.txt">>].kind = "report"
         /\ Len(files'[<<"calibracion_velocimetro_",
                         Str(Len(calibration_data)), "_puntos.txt">>].rows)
               = Len(pipe_of)
         /\ \A i \in 1..Len(pipe_of) :
               /\ Float(pipe_of[i].diametro) =
                     Float(Strip(files'[<<"calibracion_velocimetro_",
                                         Str(Len(calibration_data)),
                                         "_puntos.txt">>].diametro))
               /\ Float(pipe_of[i].espesor) =
                     Float(Strip(files'[<<"calibracion_velocimetro_",
                                         Str(Len(calibration_data)),
                                         "_puntos.txt">>].espesor))]_vars

=============================================================================
